---- MODULE Spec2Model ----
(***************************************************************************)
(* Model of src/SyncManager.js: the SyncManager state machine (peer probe  *)
(* loop, deploy-signal wait loop, artifact deploy, manual wake).           *)
(*                                                                         *)
(* JavaScript runs every handler to completion between two awaits.  A run  *)
(* of start() is modelled as a process with a program counter: pc[r] is    *)
(* either an await the run is suspended on ("probe", "poll", ...), a       *)
(* continuation queued as a microtask ("hop105", ...), or the source line  *)
(* it executes next ("L98", ...).  cur is the stack of the runs that       *)
(* execute synchronous code: the top one runs, the ones below are inside   *)
(* an emit whose listener called start().  Each synchronous step runs up   *)
(* to and including one emit.  While the emit lasts (inEmit) a listener    *)
(* may call start(), stop() or wakeUpGemelo(), and it may throw: the       *)
(* exception is routed to the catch block that encloses the emit in the    *)
(* source, through a queued continuation when that catch is in a caller.   *)
(*                                                                         *)
(* Spec is the instance whose callers start a run only when none is        *)
(* active; SpecRace lets start() be called at any time; SpecLive is Spec   *)
(* with every operation settling; SpecProbe is tryConnectToGemelo called    *)
(* on its own with one response.                                           *)
(***************************************************************************)
EXTENDS Integers, Sequences, FiniteSets, TLC

\* ---- bounds of the model ------------------------------------------------
MaxRuns == 2
MaxRetries == 2
MaxFiles == 2
MaxFaults == 1
MaxWakes == 1
MaxNesting == 2
MaxRacePolls == 1

\* ---- program constants --------------------------------------------------
maxPolls == 30
internalCode == 720
OwnBotId == "FalsoBot_Carnada_01"

Runs == 1 .. MaxRuns

VARIABLES
  state,            \* this.state
  retries,          \* this.retries
  isStopped,        \* this.isStopped
  maxRetries,       \* this.config.maxRetries
  numFiles,         \* this.config.botsFilesUrls.length
  pc,               \* pc[r]: where run r of start() is
  polls,            \* polls[r]: local variable of waitForDeploySignal
  fileIdx,          \* fileIdx[r]: position of the for loop of deployBots
  cur,              \* the stack of the runs executing synchronous code, top first
  inEmit,           \* the frame that executes is inside an emit: its listeners run
  wakePending,      \* wake requests in flight
  wpc,              \* where the resumed wakeUpGemelo call is, "idle" if none is executing
  emitted,          \* the event emitted by the last step, <<>> if none
  lastCall,         \* the public method the last step called, "none" if it was no call
  log,              \* events of the runs since the last start(), stateChange/error left out
  io,               \* artifact fetches, writes and launches since the last start()
  lastStateChange,  \* payload of the most recent stateChange event
  faults,           \* listener exceptions so far
  faultBudget,      \* listener exceptions the environment may still raise in total
  reentrant,        \* some start() was called with no stop() since the previous start()
  inFlight,         \* the last stop() was called while a run awaited an operation
  probeIn,          \* the response to the ping of a probe called on its own
  probeOut          \* where that probe is: its await or the boolean it resolved to

vars == <<state, retries, isStopped, maxRetries, numFiles, pc, polls, fileIdx,
          cur, inEmit, wakePending, wpc, emitted, lastCall, log, io, lastStateChange, faults,
          faultBudget, reentrant, inFlight, probeIn, probeOut>>

prog == <<state, retries, isStopped>>

\* ---- the probe validation (pure part of tryConnectToGemelo) -------------
Undef == [t |-> "undefined", n |-> 0, s |-> ""]
Null == [t |-> "null", n |-> 0, s |-> ""]
Num(n) == [t |-> "number", n |-> n, s |-> ""]
Str(s) == [t |-> "string", n |-> 0, s |-> s]

CodeVals == {Undef, Null, Num(internalCode), Num(internalCode + 1), Num(0), Str("720")}
IdVals == {Undef, Null, Str(OwnBotId), Str("other"), Num(1)}

\* a parsed JSON body: its own type and the two properties the code reads
Body(t, c, i) == [t |-> t, internalCode |-> c, botId |-> i]
Bodies ==
  {Body("object", c, i) : c \in CodeVals, i \in IdVals}
    \cup {Body(t, Undef, Undef) : t \in {"null", "array", "number", "string", "boolean"}}

NoBody == Body("none", Undef, Undef)
\* kind: "reject" fetch rejected (network failure, abort by the timeout),
\*       "badjson" response.json() rejected, "http" a parsed response
Responses ==
  {[kind |-> "reject", ok |-> FALSE, body |-> NoBody]}
    \cup {[kind |-> "badjson", ok |-> o, body |-> NoBody] : o \in BOOLEAN}
    \cup {[kind |-> "http", ok |-> o, body |-> b] : o \in BOOLEAN, b \in Bodies}

\* the typeof operator of JavaScript
TypeOf(t) == IF t \in {"null", "array", "object"} THEN "object" ELSE t

isSyncData(obj) ==
  /\ obj.t # "null"
  /\ TypeOf(obj.t) = "object"
  /\ TypeOf(obj.internalCode.t) = "number"
  /\ TypeOf(obj.botId.t) = "string"

\* ProbeMatch without the comparison with the own botId
ProbeMatchAnyPeer(resp) ==
  IF resp.kind = "reject" THEN FALSE
  ELSE IF ~resp.ok THEN FALSE
  ELSE IF resp.kind = "badjson" THEN FALSE
  ELSE /\ isSyncData(resp.body)
       /\ resp.body.internalCode.n = internalCode

\* the value of `connected` up to the emit of gemeloFound
ProbeMatch(resp) ==
  IF resp.kind = "reject" THEN FALSE
  ELSE IF ~resp.ok THEN FALSE
  ELSE IF resp.kind = "badjson" THEN FALSE
  ELSE /\ isSyncData(resp.body)
       /\ resp.body.internalCode.n = internalCode
       /\ resp.body.botId.s # OwnBotId

\* ---- the deploy-signal poll (pure part of waitForDeploySignal) ----------
\* deploy: the value of body.deploy ("true", "false", "string", "number",
\* "missing"); body "null" is a JSON null, "badjson" a json() rejection
PollResponses ==
  {[kind |-> "reject", ok |-> FALSE, body |-> "none", deploy |-> "missing"]}
    \cup {[kind |-> "http", ok |-> o, body |-> b, deploy |-> "missing"] :
            o \in BOOLEAN, b \in {"null", "badjson"}}
    \cup {[kind |-> "http", ok |-> o, body |-> "object", deploy |-> d] :
            o \in BOOLEAN, d \in {"true", "false", "string", "number", "missing"}}

\* "error": the try block throws; "deploy": body.deploy === true; "none" otherwise
PollOutcome(resp) ==
  IF resp.kind = "reject" THEN "error"
  ELSE IF ~resp.ok THEN "none"
  ELSE IF resp.body = "badjson" THEN "error"
  ELSE IF resp.body # "null" /\ resp.deploy = "true" THEN "deploy"
  ELSE "none"

\* ---- control ------------------------------------------------------------
\* the awaits of an operation that settles in a later turn of the event loop
AwaitPcs == {"probe", "probeBody", "retrySleep", "catchSleep", "poll", "pollBody",
             "pollSleep", "mkdir", "fetchFile", "fetchBody", "writeFile", "exec"}
\* the continuation of a caller whose callee has returned or thrown: it is
\* queued as a microtask and resumes at the line the name gives
HopPcs == {"hop87", "hop105", "hop115", "hop122", "hop200", "hop239", "hop241"}
FinalPcs == {"unused", "done", "rejected", "abandoned"}
Suspended == AwaitPcs \cup HopPcs \cup FinalPcs

HopTarget(h) ==
  CASE h = "hop87" -> "L87a"
    [] h = "hop105" -> "L105"
    [] h = "hop115" -> "L115"
    [] h = "hop122" -> "L122a"
    [] h = "hop200" -> "L200"
    [] h = "hop239" -> "L239"
    [] h = "hop241" -> "L241a"

\* the lines where the local `polls` of waitForDeploySignal is in scope
PollScope == {"L183", "poll", "pollBody", "L200", "L203", "pollSleep", "L207", "L208a",
              "L208b", "L216", "mkdir", "L220", "L223", "fetchFile", "fetchBody",
              "writeFile", "L231", "L234", "L237", "L251", "exec", "L239", "L241a",
              "L241b", "hop200", "hop239", "hop241"}
\* the lines where the iterator of the for loop of deployBots is in scope
FileScope == {"L220", "L223", "fetchFile", "fetchBody", "writeFile", "L231"}

\* a listener may throw while the fault budget lasts
Throws == IF faults < faultBudget THEN BOOLEAN ELSE {FALSE}

Ev(name, arg) == <<name, arg>>

Record(l, ev) == IF ev[1] \in {"stateChange", "error"} THEN l ELSE Append(l, ev)

\* the frames under the one that executes
Below == IF cur = <<>> THEN <<>> ELSE Tail(cur)

\* run r continues at target, over the frames of below, with locals p (polls)
\* and f (file index); a local that leaves its scope is dropped.  After an
\* emit the frame stays on the stack (its listeners are running); a step that
\* emits nothing and ends at an await or a return leaves the stack
Goto(r, below, target, p, f, emits) ==
  /\ pc' = [pc EXCEPT ![r] = target]
  /\ cur' = IF emits \/ target \notin Suspended THEN <<r>> \o below ELSE below
  /\ inEmit' = (emits \/ (target \in Suspended /\ (below # <<>> \/ wpc # "idle")))
  /\ polls' = [polls EXCEPT ![r] = IF target \in PollScope THEN p ELSE 0]
  /\ fileIdx' = [fileIdx EXCEPT ![r] = IF target \in FileScope THEN f ELSE 0]

\* this.emit(ev), then continue at nxt with locals p and f; when a listener
\* throws, continue at hnd instead
EmitTo(r, ev, nxt, hnd, p, f) ==
  \E th \in Throws :
    /\ emitted' = <<ev>>
    /\ lastCall' = "none"
    /\ log' = Record(log, ev)
    /\ lastStateChange' = IF ev[1] = "stateChange" THEN ev[2] ELSE lastStateChange
    /\ faults' = IF th THEN faults + 1 ELSE faults
    /\ io' = io
    /\ Goto(r, Below, IF th THEN hnd ELSE nxt, p, f, TRUE)

Emit(r, ev, nxt, hnd) == EmitTo(r, ev, nxt, hnd, polls[r], fileIdx[r])

\* a step that emits nothing
SilentIo(r, target, p, f, newIo) ==
  /\ emitted' = <<>>
  /\ lastCall' = "none"
  /\ io' = newIo
  /\ UNCHANGED <<log, lastStateChange, faults>>
  /\ Goto(r, Below, target, p, f, FALSE)

Silent(r, target) == SilentIo(r, target, polls[r], fileIdx[r], io)

\* setError, first half: this.state = "error"; emit stateChange
setErrorState(r, nxt, hnd) ==
  /\ state' = "error"
  /\ Emit(r, Ev("stateChange", "error"), nxt, hnd)

config == <<maxRetries, numFiles, faultBudget>>
wake == <<wakePending, wpc>>
probeVars == <<probeIn, probeOut>>
frame == <<config, wake, reentrant, inFlight, probeVars>>

\* no handler is executing: the event loop takes the next task
Idle == cur = <<>> /\ wpc = "idle"

\* a public method can be called: by the owner between two tasks, by a
\* microtask before a queued continuation, or by a listener during an emit
Callable == Idle \/ inEmit

\* no continuation is queued as a microtask
NoHop == \A q \in Runs : pc[q] \notin HopPcs

\* run r executes and is at line l
At(r, l) == cur # <<>> /\ Head(cur) = r /\ pc[r] = l
\* the queued continuation of run r is taken
Resumes(r, l) == Idle /\ pc[r] = l
\* the operation run r awaits settles: fetch, timers, fs and child_process
\* settle in a task of the event loop, taken when no microtask is queued
Settles(r, l) == Idle /\ NoHop /\ pc[r] = l

\* no run of start() is still active
Quiescent == \A q \in Runs : pc[q] \in FinalPcs

InitWith(retrySet, fileSet, budget) ==
  /\ state = "idle"
  /\ retries = 0
  /\ isStopped = FALSE
  /\ maxRetries \in retrySet
  /\ numFiles \in fileSet
  /\ faultBudget = budget
  /\ pc = [r \in Runs |-> "unused"]
  /\ polls = [r \in Runs |-> 0]
  /\ fileIdx = [r \in Runs |-> 0]
  /\ cur = <<>>
  /\ inEmit = FALSE
  /\ wakePending = 0
  /\ wpc = "idle"
  /\ emitted = <<>>
  /\ lastCall = "none"
  /\ log = <<>>
  /\ io = <<>>
  /\ lastStateChange = "none"
  /\ faults = 0
  /\ reentrant = FALSE
  /\ inFlight = FALSE

NoProbe ==
  /\ probeIn = [kind |-> "reject", ok |-> FALSE, body |-> NoBody]
  /\ probeOut = "none"

Init == InitWith(0 .. MaxRetries, 0 .. MaxFiles, MaxFaults) /\ NoProbe

\* ---- public calls -------------------------------------------------------
\* line 78-85: start() up to the call of attemptConnectionLoop; the new run
\* executes on top of the caller until its first await
start(r) ==
  /\ Callable
  /\ Len(cur) < MaxNesting
  /\ pc[r] \in FinalPcs
  /\ \A q \in Runs : q < r => pc[q] \notin FinalPcs
  /\ isStopped' = FALSE
  /\ state' = "searching"
  /\ retries' = 0
  /\ reentrant' = (reentrant \/ (~isStopped /\ state # "idle"))
  /\ inFlight' = FALSE
  /\ \E th \in Throws :
       /\ emitted' = <<Ev("stateChange", "searching")>>
       /\ lastCall' = "start"
       /\ lastStateChange' = "searching"
       /\ faults' = IF th THEN faults + 1 ELSE faults
       /\ Goto(r, cur, IF th THEN "rejected" ELSE "L98", 0, 0, TRUE)
  /\ log' = <<>>
  /\ io' = <<>>
  /\ UNCHANGED <<config, wake, probeVars>>

\* start() by a caller that waits for the previous run to end (spec section 5)
startQuiescent(r) == Quiescent /\ cur = <<>> /\ start(r)

\* line 91-95 (a listener that throws at line 94 changes no field: the
\* exception goes to the caller of stop)
stop ==
  /\ Callable
  /\ isStopped' = TRUE
  /\ state' = "idle"
  /\ emitted' = <<Ev("stateChange", "idle")>>
  /\ lastCall' = "stop"
  /\ lastStateChange' = "idle"
  /\ inFlight' = (Idle /\ \E r \in Runs : pc[r] \in AwaitPcs)
  /\ UNCHANGED <<retries, pc, polls, fileIdx, cur, inEmit, log, io, faults, config,
                 wake, reentrant, probeVars>>

\* wakeUpGemelo that only refuses to wake from idle
wakeUnlessIdle ==
  /\ Callable
  /\ emitted' = <<>>
  /\ lastCall' = "wakeUpGemelo"
  /\ IF state = "idle"
       THEN UNCHANGED wakePending
       ELSE /\ wakePending < MaxWakes
            /\ wakePending' = wakePending + 1
  /\ UNCHANGED <<prog, config, pc, polls, fileIdx, cur, inEmit, wpc, log, io,
                 lastStateChange, faults, reentrant, inFlight, probeVars>>

\* line 266-275: wakeUpGemelo() up to the fetch
wakeUpGemelo ==
  /\ Callable
  /\ emitted' = <<>>
  /\ lastCall' = "wakeUpGemelo"
  /\ IF state # "listening"
       THEN UNCHANGED wakePending
       ELSE /\ wakePending < MaxWakes
            /\ wakePending' = wakePending + 1
  /\ UNCHANGED <<prog, config, pc, polls, fileIdx, cur, inEmit, wpc, log, io,
                 lastStateChange, faults, reentrant, inFlight, probeVars>>

\* line 271-277: the wake request settles
wakeResolve ==
  /\ Idle /\ NoHop
  /\ wakePending > 0
  /\ wakePending' = wakePending - 1
  /\ emitted' = <<>>
  /\ lastCall' = "none"
  /\ \E out \in {"ok", "notok", "reject"} :
       wpc' = CASE out = "ok" -> "W278" [] out = "reject" -> "W281" [] OTHER -> "idle"
  /\ UNCHANGED <<prog, config, pc, polls, fileIdx, cur, inEmit, log, io,
                 lastStateChange, faults, reentrant, inFlight, probeVars>>

\* line 278, 280-281: the emits of wakeUpGemelo
wakeEmit ==
  /\ cur = <<>>
  /\ wpc \in {"W278", "W281"}
  /\ lastCall' = "none"
  /\ inEmit' = TRUE
  /\ \E th \in Throws :
       /\ faults' = IF th THEN faults + 1 ELSE faults
       /\ IF wpc = "W278"
            THEN /\ emitted' = <<Ev("wokeGemelo", 0)>>
                 /\ wpc' = IF th THEN "W281" ELSE "W283"
            ELSE /\ emitted' = <<Ev("error", 0)>>
                 /\ wpc' = "W283"
  /\ UNCHANGED <<prog, config, pc, polls, fileIdx, cur, wakePending, log, io,
                 lastStateChange, reentrant, inFlight, probeVars>>

\* line 283: the emit returns and wakeUpGemelo ends
wakeReturn ==
  /\ cur = <<>>
  /\ wpc = "W283"
  /\ wpc' = "idle"
  /\ inEmit' = FALSE
  /\ emitted' = <<>>
  /\ lastCall' = "none"
  /\ UNCHANGED <<prog, config, pc, polls, fileIdx, cur, wakePending, log, io,
                 lastStateChange, faults, reentrant, inFlight, probeVars>>

\* ---- the event loop -----------------------------------------------------
\* the emit returns where the run awaits or has ended: control goes back to
\* the frame below, or to the event loop
suspend(r) ==
  /\ cur # <<>> /\ Head(cur) = r
  /\ pc[r] \in Suspended
  /\ cur' = Tail(cur)
  /\ inEmit' = (Tail(cur) # <<>> \/ wpc # "idle")
  /\ emitted' = <<>>
  /\ lastCall' = "none"
  /\ UNCHANGED <<prog, pc, polls, fileIdx, log, io, lastStateChange, faults, frame>>

\* the continuation queued when the callee returned or threw is taken
hopResolve(r) ==
  /\ Idle
  /\ pc[r] \in HopPcs
  /\ Silent(r, HopTarget(pc[r]))
  /\ UNCHANGED <<prog, frame>>

\* ---- attemptConnectionLoop ----------------------------------------------
\* loopHead with the budget test off by one
loopHeadOffByOne(r) ==
  /\ At(r, "L98")
  /\ IF ~isStopped /\ retries <= maxRetries
       THEN Emit(r, Ev("attempt", retries + 1), "probe", "hop87")
       ELSE Silent(r, "L132")
  /\ UNCHANGED <<prog, frame>>

\* line 98-102, 145-148: loop test, emit attempt, issue the probe
loopHead(r) ==
  /\ At(r, "L98")
  /\ IF ~isStopped /\ retries < maxRetries
       THEN Emit(r, Ev("attempt", retries + 1), "probe", "hop87")
       ELSE Silent(r, "L132")
  /\ UNCHANGED <<prog, frame>>

\* line 148-155, 165-166: the fetch of the probe settles; a response that is
\* OK has its body read, anything else makes the probe return false
probeResolve(r) ==
  /\ Settles(r, "probe")
  /\ \E resp \in Responses :
       Silent(r, IF resp.kind # "reject" /\ resp.ok THEN "probeBody" ELSE "hop115")
  /\ UNCHANGED <<prog, frame>>

\* line 157-166: the body of the probe settles; a match emits gemeloFound and
\* returns true, a listener that throws there makes it return false
probeBodyResolve(r) ==
  /\ Settles(r, "probeBody")
  /\ \E resp \in {x \in Responses : x.kind # "reject" /\ x.ok} :
       IF ProbeMatch(resp)
         THEN Emit(r, Ev("gemeloFound", resp.body.botId.s), "hop105", "hop115")
         ELSE Silent(r, "hop115")
  /\ UNCHANGED <<prog, frame>>

\* line 105-106
connectState(r) ==
  /\ At(r, "L105")
  /\ state' = "connected"
  /\ Emit(r, Ev("stateChange", "connected"), "L107", "L122a")
  /\ UNCHANGED <<retries, isStopped, frame>>

\* line 107
connectEmit(r) ==
  /\ At(r, "L107")
  /\ Emit(r, Ev("connected", 0), "L176", "L122a")
  /\ UNCHANGED <<prog, frame>>

\* line 115-116: the probe did not match
retry(r) ==
  /\ At(r, "L115")
  /\ retries' = retries + 1
  /\ Emit(r, Ev("retrying", retries + 1), "L118", "L122a")
  /\ UNCHANGED <<state, isStopped, frame>>

\* line 118-120: the budget test after the listeners of retrying have run
retryTest(r) ==
  /\ At(r, "L118")
  /\ Silent(r, IF retries >= maxRetries THEN "L132" ELSE "retrySleep")
  /\ UNCHANGED <<prog, frame>>

\* line 122 (setError, line 290-291)
catchState(r) ==
  /\ At(r, "L122a")
  /\ setErrorState(r, "L122b", "hop87")
  /\ UNCHANGED <<retries, isStopped, frame>>

\* line 122 (setError, line 292)
catchEmit(r) ==
  /\ At(r, "L122b")
  /\ Emit(r, Ev("error", 0), "L123", "hop87")
  /\ UNCHANGED <<prog, frame>>

\* line 123-127
catchRetry(r) ==
  /\ At(r, "L123")
  /\ retries' = retries + 1
  /\ Silent(r, IF retries + 1 >= maxRetries THEN "L132" ELSE "catchSleep")
  /\ UNCHANGED <<state, isStopped, frame>>

\* line 120, 127, 204 (sleep, line 285-287): the timer of a sleep fires
sleepResolve(r) ==
  /\ Idle /\ NoHop
  /\ pc[r] \in {"retrySleep", "catchSleep", "pollSleep"}
  /\ Silent(r, IF pc[r] = "pollSleep" THEN "L183" ELSE "L98")
  /\ UNCHANGED <<prog, frame>>

\* line 132-133
listenState(r) ==
  /\ At(r, "L132")
  /\ state' = "listening"
  /\ Emit(r, Ev("stateChange", "listening"), "L134", "hop87")
  /\ UNCHANGED <<retries, isStopped, frame>>

\* line 134
listenEmit(r) ==
  /\ At(r, "L134")
  /\ Emit(r, Ev("listening", 0), "done", "hop87")
  /\ UNCHANGED <<prog, frame>>

\* line 86-87 (setError, line 290-291)
startCatchState(r) ==
  /\ At(r, "L87a")
  /\ setErrorState(r, "L87b", "rejected")
  /\ UNCHANGED <<retries, isStopped, frame>>

\* line 87 (setError, line 292)
startCatchEmit(r) ==
  /\ At(r, "L87b")
  /\ Emit(r, Ev("error", 0), "done", "rejected")
  /\ UNCHANGED <<prog, frame>>

\* ---- waitForDeploySignal ------------------------------------------------
\* line 176
waitEmit(r) ==
  /\ At(r, "L176")
  /\ Emit(r, Ev("waitingDeploySignal", 0), "L177", "hop122")
  /\ UNCHANGED <<prog, frame>>

\* waitState without the assignment of the state
waitStateKeepsState(r) ==
  /\ At(r, "L177")
  /\ state' = state
  /\ EmitTo(r, Ev("stateChange", state), "L183", "hop122", 0, 0)
  /\ UNCHANGED <<retries, isStopped, frame>>

\* line 177-181
waitState(r) ==
  /\ At(r, "L177")
  /\ state' = "deploying"
  /\ EmitTo(r, Ev("stateChange", "deploying"), "L183", "hop122", 0, 0)
  /\ UNCHANGED <<retries, isStopped, frame>>

\* pollHead with one poll too many
pollHeadOffByOne(r) ==
  /\ At(r, "L183")
  /\ Silent(r, IF ~isStopped /\ polls[r] <= maxPolls THEN "poll" ELSE "L207")
  /\ UNCHANGED <<prog, frame>>

\* line 183-185: loop test, issue the poll
pollHead(r) ==
  /\ At(r, "L183")
  /\ Silent(r, IF ~isStopped /\ polls[r] < maxPolls THEN "poll" ELSE "L207")
  /\ UNCHANGED <<prog, frame>>

\* line 185-191: the fetch of the poll settles; a response that is OK has its
\* body read
pollResolve(r) ==
  /\ Settles(r, "poll")
  /\ \E resp \in PollResponses :
       Silent(r, IF resp.kind = "reject" THEN "L200"
                 ELSE IF resp.ok THEN "pollBody" ELSE "L203")
  /\ UNCHANGED <<prog, frame>>

\* pollBodyResolve that deploys on any body that is not an error
pollBodyDeploysUnasked(r) ==
  /\ Settles(r, "pollBody")
  /\ \E resp \in {x \in PollResponses : x.kind # "reject" /\ x.ok} :
       CASE PollOutcome(resp) = "deploy" ->
              Emit(r, Ev("deploySignalReceived", 0), "L216", "L200")
         [] PollOutcome(resp) = "error" -> Silent(r, "L200")
         [] OTHER -> Silent(r, "L216")
  /\ UNCHANGED <<prog, frame>>

\* line 191-198: the body of the poll settles
pollBodyResolve(r) ==
  /\ Settles(r, "pollBody")
  /\ \E resp \in {x \in PollResponses : x.kind # "reject" /\ x.ok} :
       CASE PollOutcome(resp) = "deploy" ->
              Emit(r, Ev("deploySignalReceived", 0), "L216", "L200")
         [] PollOutcome(resp) = "error" -> Silent(r, "L200")
         [] OTHER -> Silent(r, "L203")
  /\ UNCHANGED <<prog, frame>>

\* pollError that gives up the signal wait
pollErrorIsFatal(r) ==
  /\ At(r, "L200")
  /\ Emit(r, Ev("error", 0), "L208a", "hop122")
  /\ UNCHANGED <<prog, frame>>

\* line 199-201
pollError(r) ==
  /\ At(r, "L200")
  /\ Emit(r, Ev("error", 0), "L203", "hop122")
  /\ UNCHANGED <<prog, frame>>

\* pollNext that does not count the poll
pollNextForgetsCount(r) ==
  /\ At(r, "L203")
  /\ SilentIo(r, "pollSleep", polls[r], 0, io)
  /\ UNCHANGED <<prog, frame>>

\* line 203-204
pollNext(r) ==
  /\ At(r, "L203")
  /\ SilentIo(r, "pollSleep", polls[r] + 1, 0, io)
  /\ UNCHANGED <<prog, frame>>

\* line 207
timeoutEmit(r) ==
  /\ At(r, "L207")
  /\ Emit(r, Ev("deploySignalTimeout", 0), "L208a", "hop122")
  /\ UNCHANGED <<prog, frame>>

\* timeoutState that sets the state without emitting stateChange
timeoutStateSilent(r) ==
  /\ At(r, "L208a")
  /\ state' = "error"
  /\ Silent(r, "L208b")
  /\ UNCHANGED <<retries, isStopped, frame>>

\* line 208 (setError, line 290-291)
timeoutState(r) ==
  /\ At(r, "L208a")
  /\ setErrorState(r, "L208b", "hop122")
  /\ UNCHANGED <<retries, isStopped, frame>>

\* line 208 (setError, line 292)
timeoutError(r) ==
  /\ At(r, "L208b")
  /\ Emit(r, Ev("error", 0), "done", "hop122")
  /\ UNCHANGED <<prog, frame>>

\* ---- deployBots ---------------------------------------------------------
\* line 216-218
deployStart(r) ==
  /\ At(r, "L216")
  /\ Emit(r, Ev("deployStart", 0), "mkdir", "L241a")
  /\ UNCHANGED <<prog, frame>>

\* line 218-220: fs.mkdir resolves or rejects
mkdirResolve(r) ==
  /\ Settles(r, "mkdir")
  /\ \E ok \in BOOLEAN :
       SilentIo(r, IF ok THEN "L220" ELSE "L241a", polls[r], 1, io)
  /\ UNCHANGED <<prog, frame>>

\* line 220-221: next artifact, emit downloadStart
fileHead(r) ==
  /\ At(r, "L220")
  /\ IF fileIdx[r] <= numFiles
       THEN Emit(r, Ev("downloadStart", fileIdx[r]), "L223", "L241a")
       ELSE Silent(r, "L234")
  /\ UNCHANGED <<prog, frame>>

\* line 223: fetch the artifact
fetchFile(r) ==
  /\ At(r, "L223")
  /\ SilentIo(r, "fetchFile", polls[r], fileIdx[r], Append(io, Ev("fetch", fileIdx[r])))
  /\ UNCHANGED <<prog, frame>>

\* fetchFileResolve that skips an artifact it could not fetch
fetchFileSkipsFailure(r) ==
  /\ Settles(r, "fetchFile")
  /\ \E ok \in BOOLEAN : Silent(r, IF ok THEN "fetchBody" ELSE "L231")
  /\ UNCHANGED <<prog, frame>>

\* line 223-228: the fetch settles; a response that is OK has its text read
fetchFileResolve(r) ==
  /\ Settles(r, "fetchFile")
  /\ \E ok \in BOOLEAN : Silent(r, IF ok THEN "fetchBody" ELSE "L241a")
  /\ UNCHANGED <<prog, frame>>

\* line 228-230: res.text() settles; write the file
fetchBodyResolve(r) ==
  /\ Settles(r, "fetchBody")
  /\ \E ok \in BOOLEAN : Silent(r, IF ok THEN "writeFile" ELSE "L241a")
  /\ UNCHANGED <<prog, frame>>

\* line 230: fs.writeFile resolves or rejects
writeFileResolve(r) ==
  /\ Settles(r, "writeFile")
  /\ \E ok \in BOOLEAN :
       SilentIo(r, IF ok THEN "L231" ELSE "L241a", polls[r], fileIdx[r],
                IF ok THEN Append(io, Ev("write", fileIdx[r])) ELSE io)
  /\ UNCHANGED <<prog, frame>>

\* line 231, 220: emit downloadComplete, advance the for loop
fileDone(r) ==
  /\ At(r, "L231")
  /\ EmitTo(r, Ev("downloadComplete", fileIdx[r]), "L220", "L241a",
            polls[r], fileIdx[r] + 1)
  /\ UNCHANGED <<prog, frame>>

\* line 234
filesWritten(r) ==
  /\ At(r, "L234")
  /\ Emit(r, Ev("deployFilesWritten", 0), "L237", "L241a")
  /\ UNCHANGED <<prog, frame>>

\* line 237, 248-250: execCommand emits execStart; a listener that throws
\* there rejects the promise the deploy awaits
execCommand(r) ==
  /\ At(r, "L237")
  /\ EmitTo(r, Ev("execStart", 0), "L251", "hop241", polls[r], 0)
  /\ UNCHANGED <<prog, frame>>

\* line 251: the command is launched
execLaunch(r) ==
  /\ At(r, "L251")
  /\ SilentIo(r, "exec", polls[r], 0, Append(io, Ev("exec", 0)))
  /\ UNCHANGED <<prog, frame>>

\* line 251-259: the child process ends; the callback emits and settles the
\* promise (a listener that throws there leaves it unsettled)
execResolve(r) ==
  /\ Settles(r, "exec")
  /\ \E ok \in BOOLEAN :
       IF ok THEN Emit(r, Ev("execSuccess", 0), "hop239", "abandoned")
             ELSE Emit(r, Ev("execError", 0), "hop241", "abandoned")
  /\ UNCHANGED <<prog, frame>>

\* deploySuccess that returns the machine to idle
deploySuccessGoesIdle(r) ==
  /\ At(r, "L239")
  /\ state' = "idle"
  /\ Emit(r, Ev("deploySuccess", 0), "done", "L241a")
  /\ UNCHANGED <<retries, isStopped, frame>>

\* deploySuccess without the return of line 196
deploySuccessPollsOn(r) ==
  /\ At(r, "L239")
  /\ Emit(r, Ev("deploySuccess", 0), "L203", "L241a")
  /\ UNCHANGED <<prog, frame>>

\* line 239
deploySuccess(r) ==
  /\ At(r, "L239")
  /\ Emit(r, Ev("deploySuccess", 0), "done", "L241a")
  /\ UNCHANGED <<prog, frame>>

\* line 240-241 (setError, line 290-291)
deployFailState(r) ==
  /\ At(r, "L241a")
  /\ setErrorState(r, "L241b", "hop200")
  /\ UNCHANGED <<retries, isStopped, frame>>

\* line 241 (setError, line 292)
deployFailEmit(r) ==
  /\ At(r, "L241b")
  /\ Emit(r, Ev("error", 0), "done", "hop200")
  /\ UNCHANGED <<prog, frame>>

\* ---- specifications -----------------------------------------------------
\* an awaited operation settles, or a queued continuation is taken
Resolve ==
  \E r \in Runs :
    \/ probeResolve(r) \/ probeBodyResolve(r) \/ sleepResolve(r)
    \/ pollResolve(r) \/ pollBodyResolve(r) \/ mkdirResolve(r)
    \/ fetchFileResolve(r) \/ fetchBodyResolve(r) \/ writeFileResolve(r)
    \/ execResolve(r) \/ hopResolve(r)

\* the steps a run takes when no listener throws, the count of a poll apart
StepRun ==
  \E r \in Runs :
    \/ suspend(r)
    \/ loopHead(r) \/ connectState(r) \/ connectEmit(r) \/ retry(r) \/ retryTest(r)
    \/ listenState(r) \/ listenEmit(r)
    \/ waitEmit(r) \/ waitState(r) \/ pollHead(r) \/ pollError(r)
    \/ timeoutEmit(r) \/ timeoutState(r) \/ timeoutError(r)
    \/ deployStart(r) \/ fileHead(r) \/ fetchFile(r) \/ fileDone(r) \/ filesWritten(r)
    \/ execCommand(r) \/ execLaunch(r) \/ deploySuccess(r)
    \/ deployFailState(r) \/ deployFailEmit(r)

\* the steps a run takes when no listener throws
StepMain == StepRun \/ \E r \in Runs : pollNext(r)

\* the catch blocks of attemptConnectionLoop and start
StepCatch ==
  \E r \in Runs :
    \/ catchState(r) \/ catchEmit(r) \/ catchRetry(r)
    \/ startCatchState(r) \/ startCatchEmit(r)

\* one instance whose owner and listeners start a run only when none is active
Next ==
  \/ \E r \in Runs : startQuiescent(r)
  \/ stop
  \/ wakeUpGemelo \/ wakeResolve \/ wakeEmit \/ wakeReturn
  \/ Resolve \/ StepMain \/ StepCatch

Spec == Init /\ [][Next]_vars

\* one instance whose owner, listeners and microtasks may call start() again
\* while a run is active; maxRetries is 1, listeners never throw, and the race
\* is followed until a run has counted MaxRacePolls polls of the deploy signal
InitRace == InitWith({1}, {0, 1}, 0) /\ NoProbe

racePollNext(r) == polls[r] < MaxRacePolls /\ pollNext(r)

NextRace ==
  \/ \E r \in Runs : start(r)
  \/ stop
  \/ Resolve
  \/ StepRun
  \/ \E r \in Runs : racePollNext(r)

SpecRace == InitRace /\ [][NextRace]_vars

\* one instance with a sequential caller and listeners that never throw; every
\* pending call, sleep and child process resolves, every handler runs on
InitLive == InitWith(0 .. MaxRetries, 0 .. MaxFiles, 0) /\ NoProbe

NextLive ==
  \/ \E r \in Runs : startQuiescent(r)
  \/ stop
  \/ Resolve \/ StepMain

SpecLive == InitLive /\ [][NextLive]_vars /\ WF_vars(Resolve) /\ WF_vars(StepMain)

\* tryConnectToGemelo called on its own, the ping answered by probeIn; the
\* listener of gemeloFound may throw and calls no public method
InitProbe ==
  /\ \E budget \in 0 .. MaxFaults : InitWith({0}, {0}, budget)
  /\ probeIn \in Responses
  /\ probeOut = "pending"

\* a step of the probe called on its own: it emits evs and continues at out
ProbeStep(out, evs, th) ==
  /\ probeOut' = out
  /\ emitted' = evs
  /\ lastCall' = "none"
  /\ log' = IF evs = <<>> THEN log ELSE Record(log, evs[1])
  /\ faults' = IF th THEN faults + 1 ELSE faults
  /\ UNCHANGED <<prog, config, pc, polls, fileIdx, cur, inEmit, wake, io,
                 lastStateChange, reentrant, inFlight, probeIn>>

\* line 143-148: the call issues the fetch of pingUrl and awaits it
tryConnectToGemelo ==
  /\ probeOut = "pending"
  /\ ProbeStep("fetch", <<>>, FALSE)

\* line 148-155, 165-166: the fetch settles; a rejection (network failure,
\* abort by the timeout) or a status that is not OK resolves false
tryConnectFetched ==
  /\ probeOut = "fetch"
  /\ ProbeStep(IF probeIn.kind # "reject" /\ probeIn.ok THEN "json" ELSE "notFound",
               <<>>, FALSE)

\* line 157-166: response.json() settles; a match emits gemeloFound and
\* resolves true, unless a listener throws: the catch of line 165 resolves false
tryConnectParsed ==
  /\ probeOut = "json"
  /\ IF ProbeMatch(probeIn)
       THEN \E th \in Throws :
              ProbeStep(IF th THEN "notFound" ELSE "found",
                        <<Ev("gemeloFound", probeIn.body.botId.s)>>, th)
       ELSE ProbeStep("notFound", <<>>, FALSE)

NextProbe == tryConnectToGemelo \/ tryConnectFetched \/ tryConnectParsed

SpecProbe == InitProbe /\ [][NextProbe]_vars


TypeOK ==
  /\ state \in {"idle", "searching", "connected", "listening", "deploying", "error"}
  /\ retries \in Nat
  /\ isStopped \in BOOLEAN
  /\ inEmit \in BOOLEAN
  /\ cur \in Seq(Runs)
  /\ \A r \in Runs : pc[r] \in Suspended \/ (cur # <<>> /\ \E i \in 1 .. Len(cur) : cur[i] = r)

\* ---- properties ---------------------------------------------------------
Has(l, name) == \E i \in 1 .. Len(l) : l[i][1] = name
Count(l, name) == Cardinality({i \in 1 .. Len(l) : l[i][1] = name})
First(l, name) == CHOOSE i \in 1 .. Len(l) : l[i][1] = name /\ \A j \in 1 .. i - 1 : l[j][1] # name
IsPrefix(a, b) == Len(a) <= Len(b) /\ \A i \in 1 .. Len(a) : a[i] = b[i]

\* attempt 1, retrying 1, ..., attempt n, retrying n
ProbeEvents(n) ==
  [i \in 1 .. 2 * n |-> IF i % 2 = 1 THEN Ev("attempt", (i + 1) \div 2)
                                     ELSE Ev("retrying", i \div 2)]

\* fetch 1, write 1, ..., fetch n, write n, exec
FullIo(n) ==
  [i \in 1 .. 2 * n + 1 |-> IF i = 2 * n + 1 THEN Ev("exec", 0)
                            ELSE IF i % 2 = 1 THEN Ev("fetch", (i + 1) \div 2)
                            ELSE Ev("write", i \div 2)]

\* the run in slot r is the run of the last start(), was not stopped, and no
\* listener has thrown
Undisturbed(r) == pc[r] # "unused" /\ ~isStopped /\ faults = 0

\* C1: after stop() the state is idle and stays idle, whatever the in-flight
\* operation resolves to, until the next start()
C1_StoppedStaysIdle == (isStopped /\ inFlight /\ faults = 0) => state = "idle"

\* C2: when start() is only called after a prior stop(), at most one network
\* call or process launch of the runs is outstanding at any time
Outstanding ==
  Cardinality({r \in Runs : /\ pc[r] \in {"probe", "probeBody", "poll", "pollBody",
                                          "fetchFile", "fetchBody", "exec"}
                            /\ \A i \in 1 .. Len(cur) : cur[i] # r})
C2_OneOutstanding == ~reentrant => Outstanding <= 1

\* C3: a run that is never stopped and whose probe never matches emits
\* attempt 1, retrying 1, ..., attempt N, retrying N, then listening, ends in
\* state listening and is never in state error
C3_ExhaustionListens ==
  \A r \in Runs :
    (Undisturbed(r) /\ ~Has(log, "gemeloFound")) =>
      /\ IsPrefix(log, ProbeEvents(maxRetries) \o <<Ev("listening", 0)>>)
      /\ state \in {"searching", "listening"}
      /\ state = "listening" => Len(log) >= 2 * maxRetries
      /\ pc[r] = "done" =>
           /\ state = "listening"
           /\ log = ProbeEvents(maxRetries) \o <<Ev("listening", 0)>>
C3_Witness ==
  /\ Undisturbed(1) /\ pc[1] = "done" /\ maxRetries = 2 /\ state = "listening"
  /\ log = <<Ev("attempt", 1), Ev("retrying", 1), Ev("attempt", 2), Ev("retrying", 2),
             Ev("listening", 0)>>

\* C4: a run whose probe first matches on attempt k has emitted k attempt and
\* k-1 retrying events before, then emits connected and waitingDeploySignal,
\* waits for the deploy signal in state deploying, and never enters listening
C4_MatchConnects ==
  \A r \in Runs :
    (Undisturbed(r) /\ Has(log, "gemeloFound")) =>
      LET i == First(log, "gemeloFound")
          k == i \div 2
      IN /\ i = 2 * k /\ 1 <= k /\ k <= maxRetries
         /\ SubSeq(log, 1, i - 1) = SubSeq(ProbeEvents(k), 1, 2 * k - 1)
         /\ Count(log, "attempt") = k /\ Count(log, "retrying") = k - 1
         /\ IsPrefix(SubSeq(log, i + 1, IF Len(log) < i + 2 THEN Len(log) ELSE i + 2),
                     <<Ev("connected", 0), Ev("waitingDeploySignal", 0)>>)
         /\ ~Has(log, "listening") /\ state # "listening"
         /\ pc[r] \in {"poll", "pollBody", "pollSleep"} =>
              state = "deploying" /\ Len(log) >= i + 2
C4_Witness ==
  /\ Undisturbed(1) /\ pc[1] = "poll" /\ polls[1] = 0 /\ state = "deploying"
  /\ log = <<Ev("attempt", 1), Ev("retrying", 1), Ev("attempt", 2),
             Ev("gemeloFound", "other"), Ev("connected", 0), Ev("waitingDeploySignal", 0)>>

\* C5: once a poll has returned deploy === true the deploy is started exactly
\* once and the run never polls again, whether the deploy succeeds or fails
DeployPcs == {"L216", "mkdir", "L220", "L223", "fetchFile", "fetchBody", "writeFile",
              "L231", "L234", "L237", "L251", "exec", "hop239", "L239", "hop241",
              "L241a", "L241b"}
C5_DeployOnce ==
  faults = 0 =>
    /\ Count(log, "deploySignalReceived") <= 1
    /\ Count(log, "deployStart") <= 1
    /\ \A r \in Runs :
         /\ Has(log, "deploySignalReceived") => pc[r] \in DeployPcs \cup {"done", "unused"}
         /\ pc[r] \in DeployPcs \ {"L216"} => Count(log, "deployStart") = 1
         /\ pc[r] \in DeployPcs => Count(log, "deploySignalReceived") = 1
C5_Witness ==
  /\ faults = 0 /\ pc[1] = "mkdir" /\ polls[1] = maxPolls - 1
  /\ Count(log, "deployStart") = 1

\* C6: 30 polls without approval give exactly one deploySignalTimeout and the
\* state error, for every maxRetries; no 31st poll is issued, no deploy started
C6_PollBudget ==
  \A r \in Runs :
    (~isStopped /\ faults = 0) =>
      /\ polls[r] <= maxPolls
      /\ pc[r] \in {"poll", "pollBody"} => polls[r] < maxPolls
      /\ pc[r] \in {"L207", "L208a", "L208b"} =>
           polls[r] = maxPolls /\ ~Has(log, "deployStart")
      /\ Count(log, "deploySignalTimeout") <= 1
      /\ pc[r] \in {"L208a", "L208b"} => Count(log, "deploySignalTimeout") = 1
      /\ (pc[r] = "done" /\ Has(log, "deploySignalTimeout")) =>
           state = "error" /\ ~Has(log, "deployStart") /\ io = <<>>
C6_Witness ==
  /\ Undisturbed(1) /\ pc[1] = "done" /\ state = "error"
  /\ Count(log, "deploySignalTimeout") = 1 /\ maxRetries = 1

\* C7: the artifacts are fetched and written in the listed order, the launch
\* comes after the last write, and a failure ends the deploy: nothing further
\* is fetched or launched, deploySuccess is not emitted, the state is error
C7_DeployInOrder ==
  faults = 0 =>
    /\ IsPrefix(io, FullIo(numFiles))
    /\ Has(log, "execStart") => Len(io) >= 2 * numFiles
    /\ Has(log, "execSuccess") => io = FullIo(numFiles)
    /\ Has(log, "deploySuccess") => io = FullIo(numFiles)
    /\ \A r \in Runs :
         /\ (pc[r] \in {"L241a", "L241b"} \/ (pc[r] = "done" /\ Has(log, "deployStart")
                                              /\ ~Has(log, "execSuccess"))) =>
              ~Has(log, "deploySuccess")
         /\ (pc[r] = "done" /\ Has(log, "deployStart") /\ ~Has(log, "deploySuccess")) =>
              (state = "error" \/ (isStopped /\ state = "idle"))
         /\ pc[r] = "L241b" => (state = "error" \/ (isStopped /\ state = "idle"))
C7_Witness ==
  /\ faults = 0 /\ numFiles = 2 /\ pc[1] = "done" /\ state = "error"
  /\ io = <<Ev("fetch", 1), Ev("write", 1), Ev("fetch", 2)>>
  /\ ~Has(log, "execStart")

\* C8: wakeUpGemelo() in a state other than listening sends no request, emits
\* no event and leaves state, retry counter and stop flag unchanged
C8_WakeNoOp ==
  [][(lastCall' = "wakeUpGemelo" /\ state # "listening") =>
       /\ wakePending' = wakePending
       /\ emitted' = <<>>
       /\ UNCHANGED <<state, retries, isStopped, log, io, lastStateChange>>]_vars
C8_Witness ==
  /\ lastCall = "wakeUpGemelo" /\ state = "deploying" /\ pc[1] = "poll"
  /\ wakePending = 0

\* C9: the probe reports a peer only for an OK response whose body has a
\* numeric internalCode equal to the configured one and a string botId other
\* than the own one, and always for such a response when no listener of
\* gemeloFound throws; the own botId, a network failure, a timeout, a status
\* that is not OK and a malformed body are a non-match, never an error: the
\* state stays idle and the only event is the gemeloFound of a match
C9_PeerFoundIff ==
  LET valid == /\ probeIn.kind = "http" /\ probeIn.ok
               /\ probeIn.body.t = "object"
               /\ probeIn.body.internalCode = Num(internalCode)
               /\ probeIn.body.botId.t = "string"
               /\ probeIn.body.botId.s # OwnBotId
      settled == probeOut \in {"found", "notFound"}
  IN  /\ probeOut = "found" => valid
      /\ (settled /\ valid /\ faults = 0) => probeOut = "found"
      /\ (settled /\ probeIn.body.botId = Str(OwnBotId)) => probeOut = "notFound"
      /\ (settled /\ (probeIn.kind # "http" \/ ~probeIn.ok)) => probeOut = "notFound"
      /\ probeOut = "json" => (probeIn.kind # "reject" /\ probeIn.ok)
      /\ probeOut \in {"fetch", "json", "found", "notFound"} =>
           /\ state = "idle" /\ lastStateChange = "none"
           /\ log = IF valid /\ settled THEN <<Ev("gemeloFound", probeIn.body.botId.s)>>
                                        ELSE <<>>
C9_Witness ==
  /\ probeOut = "notFound" /\ probeIn.kind = "http" /\ probeIn.ok
  /\ probeIn.body.internalCode = Num(internalCode)
  /\ probeIn.body.botId = Str(OwnBotId)
  /\ faults = 0 /\ log = <<>>

\* C10: what a call in flight at stop() resolves to is discarded: after stop()
\* no transition to connected is made, no artifact is fetched or written and
\* no launch command is executed
C10_ResultDiscarded ==
  [][(isStopped /\ isStopped' /\ inFlight' /\ faults' = 0) =>
       (state' # "connected" /\ io' = io)]_vars

\* C11: once the state is error, no step of a run and no call other than a
\* fresh start() (stop() apart, which sets idle) moves the state out of error
C11_ErrorIsTerminal ==
  [][(state = "error" /\ lastCall' \notin {"start", "stop"}) => state' = "error"]_vars

\* C12: after a successful deploy the run has ended in state deploying:
\* deploySuccess is its last event, every artifact was written and the command
\* launched once, and nothing polls or probes until start() or stop()
C12_SuccessIsTerminal ==
  \A r \in Runs :
    (Undisturbed(r) /\ Has(log, "deploySuccess")) =>
      /\ pc[r] = "done"
      /\ state = "deploying"
      /\ log[Len(log)] = Ev("deploySuccess", 0)
      /\ Count(log, "deploySuccess") = 1
      /\ io = FullIo(numFiles)
C12_Witness ==
  /\ Undisturbed(1) /\ Has(log, "deploySuccess") /\ numFiles = 2
  /\ state = "deploying" /\ lastCall = "wakeUpGemelo"

\* C13: once start() or stop() has been called, the payload of the most recent
\* stateChange event is the current state wherever control is yielded (and
\* before the first call the state is idle and nothing was emitted)
C13_StateChangeTracksState ==
  /\ lastStateChange # "none" => lastStateChange = state
  /\ lastStateChange = "none" => (state = "idle" /\ \A r \in Runs : pc[r] = "unused")
C13_Witness ==
  /\ Idle /\ pc[1] = "done" /\ state = "error" /\ lastStateChange = "error"
  /\ Has(log, "deploySignalTimeout")

\* C14: at every transition to listening the retry counter equals maxRetries
\* and no probe of the current run has matched (stated for runs whose
\* listeners neither throw nor call stop())
C14_ListeningOnlyOnExhaustion ==
  [][(state' = "listening" /\ state # "listening" /\ faults' = 0
        /\ (isStopped' => inFlight')) =>
       (retries' = maxRetries /\ ~Has(log', "gemeloFound"))]_vars

\* C15: within a run the signal wait comes only after the pairing (connected)
\* and every deploy (deployStart, downloads, launch) only after a deploy
\* approval (deploySignalReceived) received in that signal wait
C15_PhasesInOrder ==
  /\ \A i \in 1 .. Len(log) :
       /\ log[i][1] = "connected" => (i > 1 /\ log[i - 1][1] = "gemeloFound")
       /\ log[i][1] = "waitingDeploySignal" => (i > 1 /\ log[i - 1][1] = "connected")
       /\ log[i][1] = "deploySignalReceived" => Has(SubSeq(log, 1, i - 1), "waitingDeploySignal")
       /\ log[i][1] = "deployStart" => (i > 1 /\ log[i - 1][1] = "deploySignalReceived")
       /\ log[i][1] \in {"downloadStart", "downloadComplete", "deployFilesWritten",
                         "execStart", "execSuccess", "execError", "deploySuccess"} =>
            Has(SubSeq(log, 1, i - 1), "deployStart")
  /\ io # <<>> => Has(log, "deployStart")
  /\ \A r \in Runs :
       /\ pc[r] \in PollScope => Has(log, "waitingDeploySignal")
       /\ pc[r] \in DeployPcs \ {"L216", "L241a", "L241b"} => Has(log, "deployStart")
       /\ (state = "deploying" /\ ~isStopped) => Has(log, "connected")
C15_Witness ==
  /\ pc[1] = "exec" /\ numFiles = 2 /\ Len(io) = 5 /\ state = "deploying"
  /\ Has(log, "deploySignalReceived")

\* C16: an error of one deploy-signal poll emits an error event, leaves the
\* state deploying and the retry counter unchanged, uses up one poll of the
\* budget, and the loop sleeps and polls again
C16_PollErrorStep ==
  \A r \in Runs :
    /\ (pc[r] = "L200" /\ pc'[r] # "L200" /\ faults' = 0) =>
         /\ emitted' = <<Ev("error", 0)>>
         /\ pc'[r] = "L203"
         /\ UNCHANGED <<state, retries, polls, isStopped>>
    /\ (pc[r] = "L203" /\ pc'[r] # "L203") =>
         /\ pc'[r] = "pollSleep" /\ polls'[r] = polls[r] + 1
         /\ UNCHANGED <<state, retries>>
    /\ (pc[r] = "pollSleep" /\ pc'[r] # "pollSleep") => pc'[r] = "L183"
    /\ (pc[r] = "L183" /\ pc'[r] # "L183" /\ ~isStopped /\ polls[r] < maxPolls) =>
         pc'[r] = "poll"
    /\ (Undisturbed(r) /\ pc[r] \in {"L200", "L203", "pollSleep"}) =>
         (state = "deploying" /\ retries = Count(log, "retrying"))
C16_PollErrorNotFatal == [][C16_PollErrorStep]_vars
C16_Witness ==
  /\ Undisturbed(1) /\ pc[1] = "L203" /\ polls[1] = 2 /\ state = "deploying"
  /\ emitted = <<Ev("error", 0)>>

\* C17: in every reachable state 0 <= retries <= maxRetries (stated here for
\* callers that call start() again only after stop())
C17_RetriesInBudget == ~reentrant => (0 <= retries /\ retries <= maxRetries)

\* C18: every run terminates: when every call, sleep and child process
\* resolves, a started run comes to rest in listening, error, deploying (after
\* deploySuccess) or idle (after stop), after at most maxRetries probes and at
\* most 30 deploy-signal polls
C18_AtRest ==
  \A r \in Runs :
    /\ Count(log, "attempt") <= maxRetries
    /\ polls[r] <= maxPolls /\ (pc[r] \in {"poll", "pollBody"} => polls[r] < maxPolls)
    /\ pc[r] = "done" =>
         /\ state \in {"listening", "error", "deploying", "idle"}
         /\ state = "deploying" => Has(log, "deploySuccess")
         /\ state = "idle" => isStopped
C18_RunTerminates ==
  /\ []C18_AtRest
  /\ \A r \in Runs : (pc[r] # "unused") ~> (pc[r] = "done")
C18_Witness ==
  /\ pc[1] = "done" /\ state = "deploying" /\ Has(log, "deploySuccess")
  /\ maxRetries = 2 /\ Count(log, "attempt") = 2 /\ ~isStopped

\* C19: once a run has reached connected and entered the signal wait it emits
\* no further attempt event and issues no further probe, whatever happens in
\* the signal wait or the deploy
C19_NoProbeAfterMatch ==
  /\ \A i \in 1 .. Len(log) : \A j \in i + 1 .. Len(log) :
       log[i][1] = "waitingDeploySignal" => log[j][1] # "attempt"
  /\ \A r \in Runs : Has(log, "waitingDeploySignal") => pc[r] # "probe"
====
